---- MODULE Spec2Model ----
(***************************************************************************)
(* Barcode generation service of microtools-api                            *)
(* (internal/services/generator/barcode.go): request defaulting,           *)
(* validation with the UPC-A / EAN-13 weighted modulo-10 check digit,      *)
(* the call of the external symbology encoder, and the raster and vector   *)
(* renderers, as the steps of one Generate call; the HTTP handler around   *)
(* the call; and a second call running on the same service.                *)
(*                                                                         *)
(* A Go string is modelled as the sequence of its bytes (0..255); an       *)
(* error as a record [kind, detail] whose kind names the sentinel the      *)
(* error wraps.                                                            *)
(***************************************************************************)
EXTENDS Integers, Sequences, FiniteSets, TLC

VARIABLES
    caller,   \* the request value the caller holds (Generate receives a copy)
    req,      \* Generate's own copy of the request
    pc,       \* position of the call inside Generate
    bc,       \* the bar pattern returned by the encoder (<<>> before that)
    encArg,   \* the string handed to the encoder (<<>> before that)
    calls,    \* the functions Generate has invoked so far, in order
    ret,      \* what Generate returned: [data, contentType, err]
    hpc,      \* position of GenerateBarcodeHandler around the call
    resp,     \* the HTTP response written: [status, contentType, body]
    peer,     \* a second Generate call on the same service (its own locals)
    geo,      \* one bar of the vector renderer's scan and its written numbers
    mw        \* a request passing through APICounterMiddleware

vars == <<caller, req, pc, bc, encArg, calls, ret, hpc, resp, peer, geo, mw>>

(***************************************************************************)
(* Program constants                                                       *)
(***************************************************************************)
BarcodeTypeUPCA == "UPC-A"
BarcodeTypeEAN13 == "EAN-13"
BarcodeTypeCode128 == "Code128"
BarcodeFormatPNG == "png"
BarcodeFormatSVG == "svg"

defaultBarcodeWidth == 300
defaultBarcodeHeight == 150
maxBarcodeWidth == 1024
maxBarcodeHeight == 1024
minBarcodeWidth == 50
minBarcodeHeight == 50
textPaddingHeight == 20
maxCode128Length == 500

ErrInvalidType == "ErrInvalidType"
ErrInvalidFormat == "ErrInvalidFormat"
ErrInvalidData == "ErrInvalidData"
ErrChecksumMismatch == "ErrChecksumMismatch"

\* error values: nil, a sentinel itself, or fmt.Errorf("%w: ...", sentinel)
NilErr == [kind |-> "nil", detail |-> ""]
Errorf(kind, detail) == [kind |-> kind, detail |-> detail]

(***************************************************************************)
(* Bounds of the model                                                     *)
(***************************************************************************)
\* longest suffix appended to a digit prefix when the data inputs are drawn
MaxSuffix == 2
\* widest bar pattern the encoder is taken to return
MaxPattern == 3

(***************************************************************************)
(* Strings as byte sequences                                               *)
(***************************************************************************)
\* the ASCII string of a sequence of decimal digits
Digits(ds) == [i \in 1..Len(ds) |-> 48 + ds[i]]

\* n copies of the byte sequence u
Repeat(u, n) == [i \in 1..(n * Len(u)) |-> u[((i - 1) % Len(u)) + 1]]

\* all sequences over S of length at most n
RECURSIVE SeqUpTo(_, _)
SeqUpTo(S, n) ==
    IF n = 0 THEN {<<>>}
    ELSE LET shorter == SeqUpTo(S, n - 1)
         IN  shorter \cup {Append(s, c) : s \in shorter, c \in S}

(***************************************************************************)
(* Validation                                                              *)
(***************************************************************************)
\* isNumeric that returns after looking at the first rune only
isNumeric_firstOnly(s) ==
    IF Len(s) = 0 THEN FALSE
    ELSE ~(s[1] < 48 \/ s[1] > 57)

\* isNumeric: non-empty and every rune in '0'..'9' (a byte >= 0x80 is part of
\* a rune that is no digit)
isNumeric(s) ==
    IF Len(s) = 0 THEN FALSE
    ELSE \A i \in 1..Len(s) : ~(s[i] < 48 \/ s[i] > 57)

\* int(digits[i] - '0'): the subtraction is done on bytes
DigitAt(digits, i) == (digits[i + 1] - 48) % 256

\* the loop of computeUPCAChecksum with the weight 5 in place of 3
RECURSIVE sumUPCA_weight5(_, _)
sumUPCA_weight5(digits, i) ==
    IF i >= 11 THEN 0
    ELSE (IF i % 2 = 0 THEN DigitAt(digits, i) * 5 ELSE DigitAt(digits, i))
         + sumUPCA_weight5(digits, i + 1)

\* the loop of computeUPCAChecksum, from index i up to 10
RECURSIVE sumUPCA(_, _)
sumUPCA(digits, i) ==
    IF i >= 11 THEN 0
    ELSE (IF i % 2 = 0 THEN DigitAt(digits, i) * 3 ELSE DigitAt(digits, i) * 1)
         + sumUPCA(digits, i + 1)

\* computeUPCAChecksum with the weights of the even and odd positions swapped
computeUPCAChecksum_swapped(digits) ==
    LET w(i) == IF i % 2 = 0 THEN 1 ELSE 3
        d(i) == DigitAt(digits, i)
        sum == d(0)*w(0) + d(1)*w(1) + d(2)*w(2) + d(3)*w(3) + d(4)*w(4) + d(5)*w(5)
               + d(6)*w(6) + d(7)*w(7) + d(8)*w(8) + d(9)*w(9) + d(10)*w(10)
    IN  (10 - (sum % 10)) % 10

computeUPCAChecksum(digits) == (10 - (sumUPCA(digits, 0) % 10)) % 10

\* validateUPCAChecksum that never reports a mismatch
validateUPCAChecksum_accept(data) == NilErr

validateUPCAChecksum(data) ==
    LET expected == computeUPCAChecksum(SubSeq(data, 1, 11))
        actual == DigitAt(data, 11)
    IN  IF expected # actual
        THEN Errorf(ErrChecksumMismatch, "expected check digit")
        ELSE NilErr

\* the loop of computeEAN13Checksum with the weights of UPC-A: 3 at the
\* even indices
RECURSIVE sumEAN13_upcWeights(_, _)
sumEAN13_upcWeights(digits, i) ==
    IF i >= 12 THEN 0
    ELSE (IF i % 2 = 0 THEN DigitAt(digits, i) * 3 ELSE DigitAt(digits, i) * 1)
         + sumEAN13_upcWeights(digits, i + 1)

\* the loop of computeEAN13Checksum, from index i up to 11
RECURSIVE sumEAN13(_, _)
sumEAN13(digits, i) ==
    IF i >= 12 THEN 0
    ELSE (IF i % 2 = 0 THEN DigitAt(digits, i) * 1 ELSE DigitAt(digits, i) * 3)
         + sumEAN13(digits, i + 1)

\* computeEAN13Checksum without the final reduction: 10 instead of 0 when the
\* sum is a multiple of 10
computeEAN13Checksum_noMod(digits) == 10 - (sumEAN13(digits, 0) % 10)

computeEAN13Checksum(digits) == (10 - (sumEAN13(digits, 0) % 10)) % 10

validateEAN13Checksum(data) ==
    LET expected == computeEAN13Checksum(SubSeq(data, 1, 12))
        actual == DigitAt(data, 12)
    IN  IF expected # actual
        THEN Errorf(ErrChecksumMismatch, "expected check digit")
        ELSE NilErr

\* continuation byte 10xxxxxx
IsCont(b) == b >= 128 /\ b <= 191

\* length of the UTF-8 sequence a byte starts (0: the byte starts none)
LeadLen(b) ==
    IF b < 128 THEN 1
    ELSE IF b >= 194 /\ b <= 223 THEN 2
    ELSE IF b >= 224 /\ b <= 239 THEN 3
    ELSE IF b >= 240 /\ b <= 244 THEN 4
    ELSE 0

\* the range of the byte after lead byte b (no overlong form, no surrogate,
\* nothing above U+10FFFF)
SecondOK(b, c) ==
    IF b = 224 THEN c >= 160 /\ c <= 191
    ELSE IF b = 237 THEN c >= 128 /\ c <= 159
    ELSE IF b = 240 THEN c >= 144 /\ c <= 191
    ELSE IF b = 244 THEN c >= 128 /\ c <= 143
    ELSE IsCont(c)

\* a complete well-formed sequence starts at byte i (1-based)
WellFormedAt(s, i) ==
    LET n == LeadLen(s[i])
    IN  /\ n >= 1
        /\ i + n - 1 <= Len(s)
        /\ n >= 2 => SecondOK(s[i], s[i + 1])
        /\ \A k \in 2..(n - 1) : IsCont(s[i + k])

\* continuation byte i belongs to the sequence of a lead byte before it
Covered(s, i) ==
    \E k \in 1..3 :
        /\ i - k >= 1
        /\ LeadLen(s[i - k]) > k
        /\ \A j \in 1..(k - 1) : IsCont(s[i - j])

\* utf8.ValidString: the string splits into well-formed sequences, that is,
\* every byte starts one or continues the one begun just before it
utf8ValidString(s) ==
    \A i \in 1..Len(s) :
        IF IsCont(s[i]) THEN Covered(s, i) ELSE WellFormedAt(s, i)

validateBarcodeData(barcodeType, data) ==
    CASE barcodeType = BarcodeTypeUPCA ->
            IF ~isNumeric(data)
            THEN Errorf(ErrInvalidData, "UPC-A data must be numeric")
            ELSE IF Len(data) # 11 /\ Len(data) # 12
            THEN Errorf(ErrInvalidData, "UPC-A data must be 11 or 12 digits")
            ELSE IF Len(data) = 12 THEN validateUPCAChecksum(data)
            ELSE NilErr
      [] barcodeType = BarcodeTypeEAN13 ->
            IF ~isNumeric(data)
            THEN Errorf(ErrInvalidData, "EAN-13 data must be numeric")
            ELSE IF Len(data) # 12 /\ Len(data) # 13
            THEN Errorf(ErrInvalidData, "EAN-13 data must be 12 or 13 digits")
            ELSE IF Len(data) = 13 THEN validateEAN13Checksum(data)
            ELSE NilErr
      [] barcodeType = BarcodeTypeCode128 ->
            IF ~utf8ValidString(data)
            THEN Errorf(ErrInvalidData, "Code128 data must be valid UTF-8")
            ELSE IF Len(data) > maxCode128Length
            THEN Errorf(ErrInvalidData, "Code128 data exceeds maximum length")
            ELSE NilErr
      [] OTHER -> NilErr

\* applyBarcodeDefaults that also replaces negative dimensions (<= 0 for == 0)
applyBarcodeDefaults_nonPositive(r) ==
    [r EXCEPT !.Width = IF r.Width <= 0 THEN defaultBarcodeWidth ELSE r.Width,
              !.Height = IF r.Height <= 0 THEN defaultBarcodeHeight ELSE r.Height]

applyBarcodeDefaults(r) ==
    [r EXCEPT !.Width = IF r.Width = 0 THEN defaultBarcodeWidth ELSE r.Width,
              !.Height = IF r.Height = 0 THEN defaultBarcodeHeight ELSE r.Height]

\* validateBarcodeRequest with the bounds excluded (<= and >= for < and >)
validateBarcodeRequest_strict(r) ==
    IF r.Type \notin {BarcodeTypeUPCA, BarcodeTypeEAN13, BarcodeTypeCode128}
    THEN Errorf(ErrInvalidType, "")
    ELSE IF r.Format \notin {BarcodeFormatPNG, BarcodeFormatSVG}
    THEN Errorf(ErrInvalidFormat, "")
    ELSE IF r.Data = <<>>
    THEN Errorf(ErrInvalidData, "data is required")
    ELSE IF validateBarcodeData(r.Type, r.Data) # NilErr
    THEN validateBarcodeData(r.Type, r.Data)
    ELSE IF r.Width <= minBarcodeWidth \/ r.Width >= maxBarcodeWidth
    THEN Errorf(ErrInvalidData, "width must be between")
    ELSE IF r.Height <= minBarcodeHeight \/ r.Height >= maxBarcodeHeight
    THEN Errorf(ErrInvalidData, "height must be between")
    ELSE NilErr

\* validateBarcodeRequest that checks the dimensions before the data
validateBarcodeRequest_dimsFirst(r) ==
    IF r.Type \notin {BarcodeTypeUPCA, BarcodeTypeEAN13, BarcodeTypeCode128}
    THEN Errorf(ErrInvalidType, "")
    ELSE IF r.Format \notin {BarcodeFormatPNG, BarcodeFormatSVG}
    THEN Errorf(ErrInvalidFormat, "")
    ELSE IF r.Width < minBarcodeWidth \/ r.Width > maxBarcodeWidth
    THEN Errorf(ErrInvalidData, "width must be between")
    ELSE IF r.Height < minBarcodeHeight \/ r.Height > maxBarcodeHeight
    THEN Errorf(ErrInvalidData, "height must be between")
    ELSE IF r.Data = <<>>
    THEN Errorf(ErrInvalidData, "data is required")
    ELSE validateBarcodeData(r.Type, r.Data)

validateBarcodeRequest(r) ==
    IF r.Type \notin {BarcodeTypeUPCA, BarcodeTypeEAN13, BarcodeTypeCode128}
    THEN Errorf(ErrInvalidType, "")
    ELSE IF r.Format \notin {BarcodeFormatPNG, BarcodeFormatSVG}
    THEN Errorf(ErrInvalidFormat, "")
    ELSE IF r.Data = <<>>
    THEN Errorf(ErrInvalidData, "data is required")
    ELSE IF validateBarcodeData(r.Type, r.Data) # NilErr
    THEN validateBarcodeData(r.Type, r.Data)
    ELSE IF r.Width < minBarcodeWidth \/ r.Width > maxBarcodeWidth
    THEN Errorf(ErrInvalidData, "width must be between")
    ELSE IF r.Height < minBarcodeHeight \/ r.Height > maxBarcodeHeight
    THEN Errorf(ErrInvalidData, "height must be between")
    ELSE NilErr

\* an encoder argument to which the service has appended the check digit
encoderInput_withCheckDigit(barcodeType, data) ==
    IF barcodeType = BarcodeTypeUPCA
    THEN IF Len(data) = 11 /\ isNumeric(data)
         THEN <<48>> \o data \o <<48 + computeUPCAChecksum(data)>>
         ELSE <<48>> \o data
    ELSE IF barcodeType = BarcodeTypeEAN13 /\ Len(data) = 12 /\ isNumeric(data)
    THEN data \o <<48 + computeEAN13Checksum(data)>>
    ELSE data

\* an encoder argument without the leading zero of the UPC-A promotion
encoderInput_noPrefix(barcodeType, data) == data

(***************************************************************************)
(* Encoding and rendering                                                  *)
(***************************************************************************)
\* the string encodeBarcode hands to ean.Encode / code128.Encode
encoderInput(barcodeType, data) ==
    IF barcodeType = BarcodeTypeUPCA THEN <<48>> \o data ELSE data

\* A bar pattern is a non-empty row of cells, TRUE for a bar (black).  The
\* encoder is an external library: what it answers for a given string is
\* left open, it either rejects the string or returns some pattern.
Patterns == SeqUpTo(BOOLEAN, MaxPattern) \ {<<>>}
EncoderOutcomes ==
    {[ok |-> FALSE, pattern |-> <<>>]} \cup {[ok |-> TRUE, pattern |-> p] : p \in Patterns}

\* encodeBarcode that returns the encoder's own error, not wrapped in
\* ErrInvalidData
encodeBarcode_raw(barcodeType, data, o) ==
    IF barcodeType \in {BarcodeTypeUPCA, BarcodeTypeEAN13, BarcodeTypeCode128}
    THEN IF ~o.ok
         THEN [bc |-> <<>>, err |-> Errorf("EncoderError", "encoder")]
         ELSE [bc |-> o.pattern, err |-> NilErr]
    ELSE [bc |-> <<>>, err |-> Errorf(ErrInvalidType, "")]

\* encodeBarcode, given the answer o of the encoder: (bc, err)
encodeBarcode(barcodeType, data, o) ==
    IF barcodeType \in {BarcodeTypeUPCA, BarcodeTypeEAN13, BarcodeTypeCode128}
    THEN IF ~o.ok
         THEN [bc |-> <<>>, err |-> Errorf(ErrInvalidData, "encoder")]
         ELSE [bc |-> o.pattern, err |-> NilErr]
    ELSE [bc |-> <<>>, err |-> Errorf(ErrInvalidType, "")]

\* renderBarcodePNG that returns the buffer together with the encoding error
renderBarcodePNG_partial(pattern, width, height, includeText, text, scaleOK, pngOK) ==
    IF ~scaleOK
    THEN [data |-> <<>>, err |-> Errorf("ScaleError", "failed to scale barcode")]
    ELSE IF ~pngOK
    THEN [data |-> <<[kind |-> "png", width |-> width, height |-> height]>>,
          err |-> Errorf("PNGEncodeError", "failed to encode PNG")]
    ELSE [data |-> <<[kind |-> "png", width |-> width, height |-> height]>>,
          err |-> NilErr]

\* renderBarcodePNG whose canvas has no room for the label
renderBarcodePNG_noPadding(pattern, width, height, includeText, text, scaleOK, pngOK) ==
    LET canvas == [kind |-> "png", width |-> width, height |-> height,
                   bars |-> pattern, barsHeight |-> height,
                   label |-> IF includeText THEN text ELSE <<>>,
                   baseline |-> IF includeText
                                THEN height + textPaddingHeight - 4 ELSE 0]
    IN  IF ~scaleOK
        THEN [data |-> <<>>, err |-> Errorf("ScaleError", "failed to scale barcode")]
        ELSE IF ~pngOK
        THEN [data |-> <<>>, err |-> Errorf("PNGEncodeError", "failed to encode PNG")]
        ELSE [data |-> <<canvas>>, err |-> NilErr]

\* renderBarcodePNG, given whether barcode.Scale and png.Encode succeed (both
\* are library calls that return an error).  The bytes are modelled by the
\* image they encode.
renderBarcodePNG(pattern, width, height, includeText, text, scaleOK, pngOK) ==
    LET barcodeHeight == height
        totalHeight == IF includeText THEN height + textPaddingHeight ELSE height
        canvas == [kind |-> "png", width |-> width, height |-> totalHeight,
                   bars |-> pattern, barsHeight |-> barcodeHeight,
                   label |-> IF includeText THEN text ELSE <<>>,
                   baseline |-> IF includeText
                                THEN height + textPaddingHeight - 4 ELSE 0]
    IN  IF ~scaleOK
        THEN [data |-> <<>>, err |-> Errorf("ScaleError", "failed to scale barcode")]
        ELSE IF ~pngOK
        THEN [data |-> <<>>, err |-> Errorf("PNGEncodeError", "failed to encode PNG")]
        ELSE [data |-> <<canvas>>, err |-> NilErr]

\* strings.ReplaceAll(s, old, new) for a one-byte old: every occurrence is
\* replaced, left half then right half
RECURSIVE ReplaceAll(_, _, _)
ReplaceAll(s, old, new) ==
    IF Len(s) = 0 THEN <<>>
    ELSE IF Len(s) = 1 THEN (IF s[1] = old THEN new ELSE s)
    ELSE LET h == Len(s) \div 2
         IN  ReplaceAll(SubSeq(s, 1, h), old, new)
             \o ReplaceAll(SubSeq(s, h + 1, Len(s)), old, new)

\* an escape that replaces & after the other four, so that the & of the
\* entities it has just written is escaped again
barcodeSVGEscape_ampLast(s) ==
    LET s1 == ReplaceAll(s, 60, <<38, 108, 116, 59>>)
        s2 == ReplaceAll(s1, 62, <<38, 103, 116, 59>>)
        s3 == ReplaceAll(s2, 34, <<38, 113, 117, 111, 116, 59>>)
        s4 == ReplaceAll(s3, 39, <<38, 97, 112, 111, 115, 59>>)
    IN  ReplaceAll(s4, 38, <<38, 97, 109, 112, 59>>)

\* barcodeSVGEscape: & first, then <, >, ", '
barcodeSVGEscape(s) ==
    LET s1 == ReplaceAll(s, 38, <<38, 97, 109, 112, 59>>)
        s2 == ReplaceAll(s1, 60, <<38, 108, 116, 59>>)
        s3 == ReplaceAll(s2, 62, <<38, 103, 116, 59>>)
        s4 == ReplaceAll(s3, 34, <<38, 113, 117, 111, 116, 59>>)
    IN  ReplaceAll(s4, 39, <<38, 97, 112, 111, 115, 59>>)

\* the scan loop with the bound x < bounds.Max.X: a run that is open at the
\* last column is never closed
RECURSIVE svgScan_noFlush(_, _, _, _, _)
svgScan_noFlush(pattern, width, barcodeHeight, x, startX) ==
    LET bcWidth == Len(pattern)
        isBar == pattern[x + 1]
    IN  IF x >= bcWidth THEN <<>>
        ELSE IF isBar /\ startX = -1
        THEN svgScan_noFlush(pattern, width, barcodeHeight, x + 1, x)
        ELSE IF ~isBar /\ startX # -1
        THEN <<[tag |-> "rect", fill |-> "black",
                xNum |-> startX * width, wNum |-> (x - startX) * width,
                den |-> bcWidth, y |-> 0, height |-> barcodeHeight]>>
             \o svgScan_noFlush(pattern, width, barcodeHeight, x + 1, -1)
        ELSE svgScan_noFlush(pattern, width, barcodeHeight, x + 1, startX)

\* the scan loop with the width of a run taken up to and including the
\* white cell that closes it
RECURSIVE svgScan_lateClose(_, _, _, _, _)
svgScan_lateClose(pattern, width, barcodeHeight, x, startX) ==
    LET bcWidth == Len(pattern)
        isBar == IF x < bcWidth THEN pattern[x + 1] ELSE FALSE
    IN  IF x > bcWidth THEN <<>>
        ELSE IF isBar /\ startX = -1
        THEN svgScan_lateClose(pattern, width, barcodeHeight, x + 1, x)
        ELSE IF ~isBar /\ startX # -1
        THEN <<[tag |-> "rect", fill |-> "black",
                xNum |-> startX * width, wNum |-> (x - startX + 1) * width,
                den |-> bcWidth, y |-> 0, height |-> barcodeHeight]>>
             \o svgScan_lateClose(pattern, width, barcodeHeight, x + 1, -1)
        ELSE svgScan_lateClose(pattern, width, barcodeHeight, x + 1, startX)

\* the scan loop of renderBarcodeSVG from column x on (x = Len(pattern) is
\* the position past the last cell, taken as white), with the run open at
\* startX (-1: none); coordinates are kept exact as num / den
RECURSIVE svgScan(_, _, _, _, _)
svgScan(pattern, width, barcodeHeight, x, startX) ==
    LET bcWidth == Len(pattern)
        isBar == IF x < bcWidth THEN pattern[x + 1] ELSE FALSE
    IN  IF x > bcWidth THEN <<>>
        ELSE IF isBar /\ startX = -1
        THEN svgScan(pattern, width, barcodeHeight, x + 1, x)
        ELSE IF ~isBar /\ startX # -1
        THEN <<[tag |-> "rect", fill |-> "black",
                xNum |-> startX * width, wNum |-> (x - startX) * width,
                den |-> bcWidth, y |-> 0, height |-> barcodeHeight]>>
             \o svgScan(pattern, width, barcodeHeight, x + 1, -1)
        ELSE svgScan(pattern, width, barcodeHeight, x + 1, startX)

\* a vector renderer whose bars are as tall as the whole canvas, label strip
\* included
renderBarcodeSVG_tallBars(pattern, width, height, includeText, text) ==
    LET totalHeight == IF includeText THEN height + textPaddingHeight ELSE height
        textY == height + textPaddingHeight - 2
    IN  [data |->
            <<[tag |-> "svg", width |-> width, height |-> totalHeight],
              [tag |-> "rect", fill |-> "white", width |-> width,
               height |-> totalHeight]>>
            \o svgScan(pattern, width, totalHeight, 0, -1)
            \o (IF includeText
                THEN <<[tag |-> "text", x |-> width \div 2, y |-> textY,
                        content |-> barcodeSVGEscape(text)]>>
                ELSE <<>>)
            \o <<[tag |-> "/svg"]>>,
         err |-> NilErr]

\* a vector renderer that writes the white background after the bars, on
\* top of them
renderBarcodeSVG_backgroundLast(pattern, width, height, includeText, text) ==
    LET totalHeight == IF includeText THEN height + textPaddingHeight ELSE height
        textY == height + textPaddingHeight - 2
    IN  [data |->
            <<[tag |-> "svg", width |-> width, height |-> totalHeight]>>
            \o svgScan(pattern, width, height, 0, -1)
            \o <<[tag |-> "rect", fill |-> "white", width |-> width,
                  height |-> totalHeight]>>
            \o (IF includeText
                THEN <<[tag |-> "text", x |-> width \div 2, y |-> textY,
                        content |-> barcodeSVGEscape(text)]>>
                ELSE <<>>)
            \o <<[tag |-> "/svg"]>>,
         err |-> NilErr]

\* a vector renderer that writes the label whether or not it is asked for
renderBarcodeSVG_labelAlways(pattern, width, height, includeText, text) ==
    LET totalHeight == IF includeText THEN height + textPaddingHeight ELSE height
        textY == height + textPaddingHeight - 2
    IN  [data |->
            <<[tag |-> "svg", width |-> width, height |-> totalHeight],
              [tag |-> "rect", fill |-> "white", width |-> width,
               height |-> totalHeight]>>
            \o svgScan(pattern, width, height, 0, -1)
            \o <<[tag |-> "text", x |-> width \div 2, y |-> textY,
                  content |-> barcodeSVGEscape(text)]>>
            \o <<[tag |-> "/svg"]>>,
         err |-> NilErr]

\* renderBarcodeSVG: the document as the sequence of its elements
renderBarcodeSVG(pattern, width, height, includeText, text) ==
    LET totalHeight == IF includeText THEN height + textPaddingHeight ELSE height
        barcodeHeight == height
        textY == barcodeHeight + textPaddingHeight - 2
    IN  [data |->
            <<[tag |-> "svg", width |-> width, height |-> totalHeight],
              [tag |-> "rect", fill |-> "white", width |-> width,
               height |-> totalHeight]>>
            \o svgScan(pattern, width, barcodeHeight, 0, -1)
            \o (IF includeText
                THEN <<[tag |-> "text", x |-> width \div 2, y |-> textY,
                        content |-> barcodeSVGEscape(text)]>>
                ELSE <<>>)
            \o <<[tag |-> "/svg"]>>,
         err |-> NilErr]


\* the switch on req.Format that labels the vector document as a PNG
renderByFormat_pngType(r, pattern, scaleOK, pngOK) ==
    IF r.Format = BarcodeFormatPNG
    THEN LET out == renderBarcodePNG(pattern, r.Width, r.Height, r.IncludeText, r.Data, scaleOK, pngOK)
         IN  [ret |-> [data |-> out.data, contentType |-> "image/png", err |-> out.err],
              call |-> "renderBarcodePNG"]
    ELSE IF r.Format = BarcodeFormatSVG
    THEN LET out == renderBarcodeSVG(pattern, r.Width, r.Height, r.IncludeText, r.Data)
         IN  [ret |-> [data |-> out.data, contentType |-> "image/png", err |-> out.err],
              call |-> "renderBarcodeSVG"]
    ELSE [ret |-> [data |-> <<>>, contentType |-> "", err |-> Errorf(ErrInvalidFormat, "")],
          call |-> ""]

\* the switch on req.Format at the end of Generate: what is returned, and
\* the renderer invoked ("" for none)
renderByFormat(r, pattern, scaleOK, pngOK) ==
    IF r.Format = BarcodeFormatPNG
    THEN LET out == renderBarcodePNG(pattern, r.Width, r.Height, r.IncludeText,
                                     r.Data, scaleOK, pngOK)
         IN  [ret |-> [data |-> out.data, contentType |-> "image/png",
                       err |-> out.err],
              call |-> "renderBarcodePNG"]
    ELSE IF r.Format = BarcodeFormatSVG
    THEN LET out == renderBarcodeSVG(pattern, r.Width, r.Height, r.IncludeText,
                                     r.Data)
         IN  [ret |-> [data |-> out.data, contentType |-> "image/svg+xml",
                       err |-> out.err],
              call |-> "renderBarcodeSVG"]
    ELSE [ret |-> [data |-> <<>>, contentType |-> "",
                   err |-> Errorf(ErrInvalidFormat, "")],
          call |-> ""]

(***************************************************************************)
(* Requests                                                                *)
(***************************************************************************)
Types == {BarcodeTypeUPCA, BarcodeTypeEAN13, BarcodeTypeCode128, "", "QR"}
Formats == {BarcodeFormatPNG, BarcodeFormatSVG, "", "gif"}
DimValues == {-1, 0, minBarcodeWidth - 1, minBarcodeWidth, defaultBarcodeWidth,
              maxBarcodeWidth, maxBarcodeWidth + 1}

\* "036000291452", the same with the last digit changed, its 11-digit form,
\* "4006381333931", the same with the last digit changed, "Hello, World!",
\* "<tag>", "12A45678901", ""
ScenarioData ==
    {Digits(<<0,3,6,0,0,0,2,9,1,4,5,2>>), Digits(<<0,3,6,0,0,0,2,9,1,4,5,3>>),
     Digits(<<0,3,6,0,0,0,2,9,1,4,5>>),
     Digits(<<4,0,0,6,3,8,1,3,3,3,9,3,1>>), Digits(<<4,0,0,6,3,8,1,3,3,3,9,3,2>>),
     <<72,101,108,108,111,44,32,87,111,114,108,100,33>>,
     <<60,116,97,103,62>>,
     <<38,60,62,34,39>>,
     <<38,108,116,59>>,
     <<49,50,65,52,53,54,55,56,57,48,49>>,
     <<>>}

\* digit strings of length 0..13 around the accepted lengths: a prefix
\* followed by every suffix of digits and 'A' up to MaxSuffix
DigitPrefixes ==
    {<<>>, Digits(<<0,3,6,0,0,0,2,9,1,4>>), Digits(<<0,3,6,0,0,0,2,9,1,4,5>>),
     Digits(<<4,0,0,6,3,8,1,3,3,3,9>>)}
SuffixAlphabet == (48..57) \cup {65}
SuffixData == {p \o x : p \in DigitPrefixes, x \in SeqUpTo(SuffixAlphabet, MaxSuffix)}

\* texts: "é", ill-formed UTF-8 (a lone 0xFF, a truncated sequence, a
\* surrogate), and texts around the Code128 length limit made of 'a'
\* (one byte each) or of "é" (two bytes each)
TextData ==
    {<<195,169>>, <<255>>, <<97,195>>, <<237,160,128>>}
    \cup {Repeat(<<97>>, n) : n \in {maxCode128Length - 1, maxCode128Length,
                                     maxCode128Length + 1}}
    \cup {Repeat(<<195,169>>, n) : n \in {maxCode128Length \div 2,
                                          maxCode128Length \div 2 + 1}}

Request(d, t, f, w, h, b) ==
    [Data |-> d, Type |-> t, Format |-> f, Width |-> w, Height |-> h,
     IncludeText |-> b]

\* every scenario string with every type, format and pair of dimensions; the
\* digit strings with the two numeric symbologies and the texts with Code128
Requests ==
    {Request(d, t, f, w, h, b) : d \in ScenarioData, t \in Types, f \in Formats,
                                 w \in DimValues, h \in DimValues, b \in BOOLEAN}
    \cup {Request(d, t, BarcodeFormatPNG, 0, 0, FALSE) :
            d \in SuffixData, t \in {BarcodeTypeUPCA, BarcodeTypeEAN13}}
    \cup {Request(d, BarcodeTypeCode128, BarcodeFormatPNG, 0, 0, FALSE) :
            d \in TextData}
    \cup {Request(<<72,101,108,108,111,44,32,87,111,114,108,100,33>>,
                  BarcodeTypeCode128, BarcodeFormatSVG, minBarcodeWidth + 1, h, b) :
            h \in {0, minBarcodeHeight + 1}, b \in BOOLEAN}

NoReturn == [data |-> <<>>, contentType |-> "", err |-> NilErr]
NoResponse == [status |-> 0, contentType |-> "", body |-> <<>>]

\* a call record: the locals of one Generate call
Call(r, at) ==
    [caller |-> r, req |-> r, pc |-> at, bc |-> <<>>, encArg |-> <<>>,
     calls |-> <<>>, ret |-> NoReturn]
\* the scan of the vector renderer is not under way
NoGeo ==
    [pc |-> "none", width |-> 0, bcWidth |-> 0, startX |-> 0, runLen |-> 0,
     gap |-> 0, nextLen |-> 0, x |-> 0, w |-> 0, xNext |-> 0, wNext |-> 0]
\* no request is passing through the middleware
NoMW ==
    [pc |-> "none", path |-> "", written |-> NoResponse, launched |-> <<>>,
     counter |-> "none", log |-> <<>>]
\* no second call is running
NoPeer == Call(Request(<<>>, "", "", 0, 0, FALSE), "none")

(***************************************************************************)
(* One Generate call, step by step                                         *)
(***************************************************************************)
\* a call of Generate with request r is starting
Calling(r) ==
    /\ caller = r
    /\ req = r
    /\ pc = "start"
    /\ bc = <<>>
    /\ encArg = <<>>
    /\ calls = <<>>
    /\ ret = NoReturn

\* the handler has decoded the body and calls Generate; no other call runs
Init ==
    /\ \E r \in Requests : Calling(r)
    /\ hpc = "generate"
    /\ resp = NoResponse
    /\ peer = NoPeer
    /\ geo = NoGeo
    /\ mw = NoMW

\* applyBarcodeDefaults on the caller's own request, as if Generate had
\* received a pointer to it
ApplyDefaults_inPlace ==
    /\ hpc = "generate"
    /\ pc = "start"
    /\ req' = applyBarcodeDefaults(req)
    /\ caller' = req'
    /\ calls' = Append(calls, "applyBarcodeDefaults")
    /\ pc' = "validate"
    /\ UNCHANGED <<bc, encArg, ret, hpc, resp, peer, geo, mw>>

\* applyBarcodeDefaults(&req) on Generate's copy of the request
ApplyDefaults ==
    /\ hpc = "generate"
    /\ pc = "start"
    /\ req' = applyBarcodeDefaults(req)
    /\ calls' = Append(calls, "applyBarcodeDefaults")
    /\ pc' = "validate"
    /\ UNCHANGED <<caller, bc, encArg, ret, hpc, resp, peer, geo, mw>>

\* Validate with the error dropped: Generate goes on to the encoder
Validate_ignoreError ==
    /\ pc = "validate"
    /\ calls' = Append(calls, "validateBarcodeRequest")
    /\ pc' = "encode"
    /\ UNCHANGED <<caller, req, bc, encArg, ret, hpc, resp, peer, geo, mw>>

\* validateBarcodeRequest(req); an error is returned at once
Validate ==
    /\ pc = "validate"
    /\ calls' = Append(calls, "validateBarcodeRequest")
    /\ LET err == validateBarcodeRequest(req)
       IN  IF err # NilErr
           THEN /\ ret' = [data |-> <<>>, contentType |-> "", err |-> err]
                /\ pc' = "done"
           ELSE /\ ret' = ret
                /\ pc' = "encode"
    /\ UNCHANGED <<caller, req, bc, encArg, hpc, resp, peer, geo, mw>>

\* encodeBarcode(req.Type, req.Data); an error is returned at once
Encode ==
    /\ pc = "encode"
    /\ calls' = Append(calls, "encodeBarcode")
    /\ encArg' = encoderInput(req.Type, req.Data)
    /\ \E o \in EncoderOutcomes :
          LET r == encodeBarcode(req.Type, req.Data, o)
          IN  IF r.err # NilErr
              THEN /\ ret' = [data |-> <<>>, contentType |-> "", err |-> r.err]
                   /\ bc' = bc
                   /\ pc' = "done"
              ELSE /\ ret' = ret
                   /\ bc' = r.bc
                   /\ pc' = "render"
    /\ UNCHANGED <<caller, req, hpc, resp, peer, geo, mw>>

\* the switch on req.Format and the return of the renderer's result
Render ==
    /\ pc = "render"
    /\ \E scaleOK \in BOOLEAN, pngOK \in BOOLEAN :
          LET r == renderByFormat(req, bc, scaleOK, pngOK)
          IN  /\ ret' = r.ret
              /\ calls' = IF r.call = "" THEN calls ELSE Append(calls, r.call)
    /\ pc' = "done"
    /\ UNCHANGED <<caller, req, bc, encArg, hpc, resp, peer, geo, mw>>

Next == ApplyDefaults \/ Validate \/ Encode \/ Render

Spec == Init /\ [][Next]_vars

(***************************************************************************)
(* A second Generate call on the same service, run by another goroutine.   *)
(* defaultBarcodeService has no fields and req is passed by value: all a   *)
(* call works on is its own locals, kept in the record peer.               *)
(***************************************************************************)
\* requests of the two concurrent calls
ConcRequests ==
    {Request(Digits(<<0,3,6,0,0,0,2,9,1,4,5>>), BarcodeTypeUPCA, BarcodeFormatSVG,
             0, 0, TRUE),
     Request(<<60,116,97,103,62>>, BarcodeTypeCode128, BarcodeFormatPNG,
             minBarcodeWidth, maxBarcodeHeight, FALSE),
     Request(Digits(<<4,0,0,6,3,8,1,3,3,3,9,3,2>>), BarcodeTypeEAN13,
             BarcodeFormatPNG, 0, 0, FALSE)}

\* two calls are starting
InitConc ==
    /\ \E r \in ConcRequests : Calling(r)
    /\ \E r \in ConcRequests : peer = Call(r, "start")
    /\ hpc = "generate"
    /\ resp = NoResponse
    /\ geo = NoGeo
    /\ mw = NoMW

\* applyBarcodeDefaults on a request kept in the service, where the other
\* call reads it
PeerApplyDefaults_shared ==
    /\ peer.pc = "start"
    /\ peer' = [peer EXCEPT !.req = applyBarcodeDefaults(peer.req),
                            !.calls = Append(peer.calls, "applyBarcodeDefaults"),
                            !.pc = "validate"]
    /\ req' = applyBarcodeDefaults(peer.req)
    /\ UNCHANGED <<caller, pc, bc, encArg, calls, ret, hpc, resp, geo, mw>>

\* applyBarcodeDefaults(&req) on the second call's copy of the request
PeerApplyDefaults ==
    /\ peer.pc = "start"
    /\ peer' = [peer EXCEPT !.req = applyBarcodeDefaults(peer.req),
                            !.calls = Append(peer.calls, "applyBarcodeDefaults"),
                            !.pc = "validate"]
    /\ UNCHANGED <<caller, req, pc, bc, encArg, calls, ret, hpc, resp, geo, mw>>

\* validateBarcodeRequest(req) in the second call
PeerValidate ==
    /\ peer.pc = "validate"
    /\ LET err == validateBarcodeRequest(peer.req)
           log == Append(peer.calls, "validateBarcodeRequest")
       IN  peer' = IF err # NilErr
                   THEN [peer EXCEPT !.calls = log, !.pc = "done",
                                     !.ret = [data |-> <<>>, contentType |-> "",
                                              err |-> err]]
                   ELSE [peer EXCEPT !.calls = log, !.pc = "encode"]
    /\ UNCHANGED <<caller, req, pc, bc, encArg, calls, ret, hpc, resp, geo, mw>>

\* encodeBarcode(req.Type, req.Data) in the second call
PeerEncode ==
    /\ peer.pc = "encode"
    /\ \E o \in EncoderOutcomes :
          LET r == encodeBarcode(peer.req.Type, peer.req.Data, o)
              log == Append(peer.calls, "encodeBarcode")
              arg == encoderInput(peer.req.Type, peer.req.Data)
          IN  peer' = IF r.err # NilErr
                      THEN [peer EXCEPT !.calls = log, !.encArg = arg, !.pc = "done",
                                        !.ret = [data |-> <<>>, contentType |-> "",
                                                 err |-> r.err]]
                      ELSE [peer EXCEPT !.calls = log, !.encArg = arg, !.bc = r.bc,
                                        !.pc = "render"]
    /\ UNCHANGED <<caller, req, pc, bc, encArg, calls, ret, hpc, resp, geo, mw>>

\* the switch on req.Format in the second call
PeerRender ==
    /\ peer.pc = "render"
    /\ \E scaleOK \in BOOLEAN, pngOK \in BOOLEAN :
          LET r == renderByFormat(peer.req, peer.bc, scaleOK, pngOK)
          IN  peer' = [peer EXCEPT !.ret = r.ret, !.pc = "done",
                                  !.calls = IF r.call = "" THEN peer.calls
                                            ELSE Append(peer.calls, r.call)]
    /\ UNCHANGED <<caller, req, pc, bc, encArg, calls, ret, hpc, resp, geo, mw>>

NextConc ==
    \/ ApplyDefaults \/ Validate \/ Encode \/ Render
    \/ PeerApplyDefaults \/ PeerValidate \/ PeerEncode \/ PeerRender

SpecConc == InitConc /\ [][NextConc]_vars

(***************************************************************************)
(* The numbers the vector renderer writes for two bars in a row of a wide  *)
(* pattern: x and width are float64(cells) * scaleX written with %.2f.      *)
(* Numbers are kept in hundredths.                                         *)
(***************************************************************************)
\* the widest pattern drawn, and the divisors that give the other widths
MaxModules == 6000
MaxDivisor == 60
\* the first column of the first bar, and the lengths of a run and of a gap
MaxStart == 8
MaxRun == 2

\* %.1f in place of %.2f: one decimal place
fmt2f_oneDecimal(num, den) ==
    LET q == (10 * num) \div den
        r2 == 2 * ((10 * num) % den)
    IN  IF r2 < den THEN {10 * q}
        ELSE IF r2 > den THEN {10 * (q + 1)}
        ELSE {10 * q, 10 * (q + 1)}

\* %.2f of the value num / den, in hundredths: the nearest hundredth; when
\* the value is halfway between two, the float64 that stands for it can lie
\* on either side
fmt2f(num, den) ==
    LET q == (100 * num) \div den
        r2 == 2 * ((100 * num) % den)
    IN  IF r2 < den THEN {q}
        ELSE IF r2 > den THEN {q + 1}
        ELSE {q, q + 1}

\* no call of Generate and no handler is running
Idle ==
    /\ caller = Request(<<>>, "", "", 0, 0, FALSE)
    /\ req = caller
    /\ pc = "none"
    /\ bc = <<>>
    /\ encArg = <<>>
    /\ calls = <<>>
    /\ ret = NoReturn
    /\ hpc = "none"
    /\ resp = NoResponse
    /\ peer = NoPeer

GeomWidths == {minBarcodeWidth, minBarcodeWidth + 1, defaultBarcodeWidth, maxBarcodeWidth}
GeomPatternWidths == {MaxModules \div d : d \in 1..MaxDivisor}

\* the scan is at the first of two bars: a run of runLen cells from column
\* startX, gap white cells, then a run of nextLen cells
InitGeom ==
    /\ Idle
    /\ mw = NoMW
    /\ \E width \in GeomWidths, bcWidth \in GeomPatternWidths, startX \in 0..MaxStart,
          runLen \in 1..MaxRun, gap \in 1..MaxRun, nextLen \in 1..MaxRun :
          geo = [pc |-> "bar", width |-> width, bcWidth |-> bcWidth,
                 startX |-> startX, runLen |-> runLen, gap |-> gap,
                 nextLen |-> nextLen, x |-> 0, w |-> 0, xNext |-> 0, wNext |-> 0]

\* the white cell after the first run: its rectangle is written
WriteBar ==
    /\ geo.pc = "bar"
    /\ \E x \in fmt2f(geo.startX * geo.width, geo.bcWidth),
          w \in fmt2f(geo.runLen * geo.width, geo.bcWidth) :
          geo' = [geo EXCEPT !.x = x, !.w = w, !.pc = "next"]
    /\ UNCHANGED <<caller, req, pc, bc, encArg, calls, ret, hpc, resp, peer, mw>>

\* the white position after the second run: its rectangle is written
WriteNextBar ==
    /\ geo.pc = "next"
    /\ LET start2 == geo.startX + geo.runLen + geo.gap
       IN  \E x \in fmt2f(start2 * geo.width, geo.bcWidth),
              w \in fmt2f(geo.nextLen * geo.width, geo.bcWidth) :
              geo' = [geo EXCEPT !.xNext = x, !.wNext = w, !.pc = "done"]
    /\ UNCHANGED <<caller, req, pc, bc, encArg, calls, ret, hpc, resp, peer, mw>>

NextGeom == WriteBar \/ WriteNextBar

SpecGeom == InitGeom /\ [][NextGeom]_vars

StatusBadRequest == 400
StatusOK == 200

(***************************************************************************)
(* APICounterMiddleware: the wrapped handler, then the counter increment   *)
(* in a goroutine of its own                                               *)
(***************************************************************************)
counterNames ==
    ("/api/v1/validate/email" :> "email-validate")
    @@ ("/api/v1/validate/ip" :> "ip-validate")
    @@ ("/api/v1/validate/iban" :> "iban-validate")
    @@ ("/api/v1/generate/qr" :> "qr-generate")
    @@ ("/api/v1/generate/barcode" :> "barcode-generate")
    @@ ("/api/v1/live" :> "live")

\* request paths: the known endpoints and two others
Paths == DOMAIN counterNames \cup {"/", "/api/v1/generate/unknown"}
\* what the wrapped handler writes
HandlerResponses ==
    {[status |-> StatusOK, contentType |-> "image/png", body |-> <<"image">>],
     [status |-> StatusBadRequest, contentType |-> "application/json",
      body |-> <<"error">>]}
\* what counterHTTPClient.Do returns: an error (the 5 s timeout included) or
\* a response with a status
CounterOutcomes == {"error", "200", "500"}

\* a request with one of the paths enters the middleware
InitMW ==
    /\ Idle
    /\ geo = NoGeo
    /\ \E path \in Paths : mw = [NoMW EXCEPT !.pc = "serve", !.path = path]

\* next.ServeHTTP(w, r) runs and returns
ServeNext ==
    /\ mw.pc = "serve"
    /\ \E response \in HandlerResponses :
          mw' = [mw EXCEPT !.written = response, !.pc = "lookup"]
    /\ UNCHANGED <<caller, req, pc, bc, encArg, calls, ret, hpc, resp, peer, geo>>

\* the look-up of the path and, for a known one, go incrementCounter(name)
Launch ==
    /\ mw.pc = "lookup"
    /\ mw' = IF mw.path \in DOMAIN counterNames
             THEN [mw EXCEPT !.launched = Append(mw.launched, counterNames[mw.path]),
                             !.counter = "build", !.pc = "return"]
             ELSE [mw EXCEPT !.pc = "return"]
    /\ UNCHANGED <<caller, req, pc, bc, encArg, calls, ret, hpc, resp, peer, geo>>

\* a middleware that calls incrementCounter itself: it returns when the
\* counter call is over
Return_waits ==
    /\ mw.pc = "return"
    /\ mw.counter \in {"none", "done"}
    /\ mw' = [mw EXCEPT !.pc = "returned"]
    /\ UNCHANGED <<caller, req, pc, bc, encArg, calls, ret, hpc, resp, peer, geo>>

\* the middleware's function returns
Return ==
    /\ mw.pc = "return"
    /\ mw' = [mw EXCEPT !.pc = "returned"]
    /\ UNCHANGED <<caller, req, pc, bc, encArg, calls, ret, hpc, resp, peer, geo>>

\* incrementCounter: http.NewRequest, which returns an error or the request
CounterBuild ==
    /\ mw.counter = "build"
    /\ \E ok \in BOOLEAN :
          mw' = IF ok
                THEN [mw EXCEPT !.counter = "do"]
                ELSE [mw EXCEPT !.counter = "done",
                                !.log = Append(mw.log, "failed to build request")]
    /\ UNCHANGED <<caller, req, pc, bc, encArg, calls, ret, hpc, resp, peer, geo>>

\* incrementCounter: counterHTTPClient.Do and the log line for its outcome
CounterDo ==
    /\ mw.counter = "do"
    /\ \E o \in CounterOutcomes :
          mw' = [mw EXCEPT !.counter = "done",
                           !.log = Append(mw.log,
                                          IF o = "error" THEN "failed to call"
                                          ELSE IF o # "200" THEN "returned status"
                                          ELSE "incremented")]
    /\ UNCHANGED <<caller, req, pc, bc, encArg, calls, ret, hpc, resp, peer, geo>>

NextMW == ServeNext \/ Launch \/ Return \/ CounterBuild \/ CounterDo

\* the goroutine that serves the request is scheduled; nothing is assumed
\* about the counter's goroutine, which may take any time
SpecMW ==
    /\ InitMW
    /\ [][NextMW]_vars
    /\ WF_vars(ServeNext) /\ WF_vars(Launch) /\ WF_vars(Return)

(***************************************************************************)
(* GenerateBarcodeHandler around the call                                  *)
(***************************************************************************)

\* writeJSONError that writes the body before the header, so that the status
\* sent is 200
writeJSONError_bodyFirst(status, message) ==
    [status |-> StatusOK, contentType |-> "application/json",
     body |-> <<[error |-> message]>>]

\* writeJSONError: the status and a JSON object {"error": message}
writeJSONError(status, message) ==
    [status |-> status, contentType |-> "application/json",
     body |-> <<[error |-> message]>>]

\* requests the handler is run on
HTTPRequests ==
    {Request(d, t, f, w, 0, b) : d \in ScenarioData, t \in Types, f \in Formats,
                                 w \in {0, minBarcodeWidth - 1}, b \in BOOLEAN}

\* the handler is about to decode the body, which holds request r if it
\* decodes at all
InitHTTP ==
    /\ \E r \in HTTPRequests : Calling(r)
    /\ hpc = "decode"
    /\ resp = NoResponse
    /\ peer = NoPeer
    /\ geo = NoGeo
    /\ mw = NoMW

\* json.NewDecoder(r.Body).Decode(&req): on an error the handler answers
\* and returns, otherwise it calls Generate
DecodeBody ==
    /\ hpc = "decode"
    /\ \E ok \in BOOLEAN :
          IF ok
          THEN /\ hpc' = "generate"
               /\ resp' = resp
          ELSE /\ hpc' = "sent"
               /\ resp' = writeJSONError(StatusBadRequest, "invalid JSON body")
    /\ UNCHANGED <<caller, req, pc, bc, encArg, calls, ret, peer, geo, mw>>

\* Generate has returned: the error answer, or the image
Respond ==
    /\ hpc = "generate"
    /\ pc = "done"
    /\ resp' = IF ret.err # NilErr
               THEN writeJSONError(StatusBadRequest, ret.err)
               ELSE [status |-> StatusOK, contentType |-> ret.contentType,
                     body |-> ret.data]
    /\ hpc' = "sent"
    /\ UNCHANGED <<caller, req, pc, bc, encArg, calls, ret, peer, geo, mw>>

NextHTTP == DecodeBody \/ ApplyDefaults \/ Validate \/ Encode \/ Render \/ Respond

SpecHTTP == InitHTTP /\ [][NextHTTP]_vars

(***************************************************************************)
(* Properties                                                              *)
(***************************************************************************)
\* the call has gone through validateBarcodeRequest
Validated == pc \in {"encode", "render", "done"}

\* validateBarcodeRequest returned nil: Generate went on to the encoder
PassedValidation ==
    \/ pc \in {"encode", "render"}
    \/ pc = "done" /\ Len(calls) >= 3 /\ calls[3] = "encodeBarcode"

\* validateBarcodeRequest returned an error of the given kind, which
\* Generate returned
RejectedWith(kind) ==
    /\ pc = "done"
    /\ calls = <<"applyBarcodeDefaults", "validateBarcodeRequest">>
    /\ ret.err.kind = kind

AllDigits(s) == \A i \in 1..Len(s) : s[i] \in 48..57
FormatOK(r) == r.Format \in {"png", "svg"}
\* the dimensions the request has after defaulting are within the bounds
DimsOK(r) ==
    /\ (IF r.Width = 0 THEN 300 ELSE r.Width) \in 50..1024
    /\ (IF r.Height = 0 THEN 150 ELSE r.Height) \in 50..1024

\* digit i (0-based) of a digit string
Dig(s, i) == s[i + 1] - 48

\* (10 - (sum_{i<11} digit[i] * (3 if i even else 1)) mod 10) mod 10
UPCACheckDigit(s) ==
    (10 - ((3 * (Dig(s,0) + Dig(s,2) + Dig(s,4) + Dig(s,6) + Dig(s,8) + Dig(s,10))
            + (Dig(s,1) + Dig(s,3) + Dig(s,5) + Dig(s,7) + Dig(s,9))) % 10)) % 10

\* (10 - (sum_{i<12} digit[i] * (1 if i even else 3)) mod 10) mod 10
EAN13CheckDigit(s) ==
    (10 - (((Dig(s,0) + Dig(s,2) + Dig(s,4) + Dig(s,6) + Dig(s,8) + Dig(s,10))
            + 3 * (Dig(s,1) + Dig(s,3) + Dig(s,5) + Dig(s,7) + Dig(s,9) + Dig(s,11)))
           % 10)) % 10

\* C1: a UPC-A request with 12 digits (and a supported format, so that the
\* data is looked at) passes the data checks only if digit[11] is the
\* weighted modulo-10 check digit of the first 11; otherwise Generate
\* returns ChecksumMismatch, the data is left as supplied and nothing is
\* handed to the encoder.
C1_UPCAChecksum ==
    (Validated /\ caller.Type = "UPC-A" /\ FormatOK(caller)
       /\ Len(caller.Data) = 12 /\ AllDigits(caller.Data))
    => IF Dig(caller.Data, 11) = UPCACheckDigit(caller.Data)
       THEN /\ ret.err.kind # "ErrChecksumMismatch"
            /\ DimsOK(caller) => PassedValidation
       ELSE /\ RejectedWith("ErrChecksumMismatch")
            /\ req.Data = caller.Data
            /\ encArg = <<>>

\* a 12-digit UPC-A code with a wrong check digit has been rejected
C1_Witness ==
    /\ RejectedWith("ErrChecksumMismatch")
    /\ caller.Type = "UPC-A"
    /\ Len(caller.Data) = 12
    /\ Dig(caller.Data, 11) # UPCACheckDigit(caller.Data)

\* C2: an EAN-13 request with 13 digits (and a supported format) passes the
\* data checks only if digit[12] is the weighted modulo-10 check digit of
\* the first 12; otherwise Generate returns ChecksumMismatch.
C2_EAN13Checksum ==
    (Validated /\ caller.Type = "EAN-13" /\ FormatOK(caller)
       /\ Len(caller.Data) = 13 /\ AllDigits(caller.Data))
    => IF Dig(caller.Data, 12) = EAN13CheckDigit(caller.Data)
       THEN /\ ret.err.kind # "ErrChecksumMismatch"
            /\ DimsOK(caller) => PassedValidation
       ELSE RejectedWith("ErrChecksumMismatch")

\* a 13-digit EAN-13 code with a wrong check digit has been rejected
C2_Witness ==
    /\ RejectedWith("ErrChecksumMismatch")
    /\ caller.Type = "EAN-13"
    /\ Len(caller.Data) = 13
    /\ Dig(caller.Data, 12) # EAN13CheckDigit(caller.Data)

\* "036000291452" and the same with its final digit changed to another digit
Scenario452 == Digits(<<0,3,6,0,0,0,2,9,1,4,5,2>>)
Scenario452Changed ==
    {Digits(<<0,3,6,0,0,0,2,9,1,4,5>>) \o <<c>> : c \in (48..57) \ {50}}

\* the scenario request: format png, default width and height, no text
IsScenario(r, type, data) ==
    r = Request(data, type, "png", 0, 0, FALSE)

\* C3 as stated: Generate with type EAN-13, format png and "036000291452"
\* with its final digit changed returns ChecksumMismatch.
C3_ChangedDigitRejected ==
    \A d \in Scenario452Changed :
        (Validated /\ IsScenario(caller, "EAN-13", d))
        => RejectedWith("ErrChecksumMismatch")

\* C3 amended: with type EAN-13 the changed data passes validation like the
\* unchanged data (12-digit EAN-13 data has no check digit to verify) and is
\* handed to the encoder, never answered with ChecksumMismatch; with type
\* UPC-A the changed data returns ChecksumMismatch while the unchanged data
\* passes validation.
C3_Amended ==
    /\ \A d \in Scenario452Changed \cup {Scenario452} :
          (Validated /\ IsScenario(caller, "EAN-13", d))
          => PassedValidation /\ ret.err.kind # "ErrChecksumMismatch"
    /\ \A d \in Scenario452Changed :
          (Validated /\ IsScenario(caller, "UPC-A", d))
          => RejectedWith("ErrChecksumMismatch")
    /\ (Validated /\ IsScenario(caller, "UPC-A", Scenario452))
          => PassedValidation /\ ret.err.kind # "ErrChecksumMismatch"

\* the changed data, as EAN-13, has passed validation and been handed to the
\* encoder as it is
C3_Witness ==
    /\ \E d \in Scenario452Changed : IsScenario(caller, "EAN-13", d)
    /\ PassedValidation
    /\ encArg = caller.Data

\* the request is valid but for its missing format
ValidButFormat(r) ==
    /\ r.Format = ""
    /\ validateBarcodeRequest(applyBarcodeDefaults([r EXCEPT !.Format = "png"])) = NilErr

\* C4: a request without format is treated as png: when it is otherwise
\* valid it is not rejected by validation, and a successful result has
\* content type image/png.
C4_FormatDefaultsToPNG ==
    (pc = "done" /\ ValidButFormat(caller))
    => /\ PassedValidation
       /\ ret.err = NilErr => ret.contentType = "image/png"

\* C5: after defaulting, width is 300 exactly when the caller's was 0 and
\* the caller's otherwise, height is 150 exactly when the caller's was 0
\* and the caller's otherwise; a request that passed validation, and so any
\* that reaches the encoder or a renderer, has both within [50, 1024].
C5_DefaultsAndBounds ==
    /\ pc # "start" =>
          /\ req.Width = (IF caller.Width = 0 THEN 300 ELSE caller.Width)
          /\ req.Height = (IF caller.Height = 0 THEN 150 ELSE caller.Height)
    /\ PassedValidation =>
          /\ req.Width \in 50..1024
          /\ req.Height \in 50..1024

\* a request without width and with height 1024 is about to be rendered
C5_Witness ==
    /\ pc = "render"
    /\ caller.Width = 0 /\ req.Width = 300
    /\ caller.Height = 1024 /\ req.Height = 1024

\* type, format and data are valid
TypeFormatDataOK(r) ==
    /\ r.Type \in {"UPC-A", "EAN-13", "Code128"}
    /\ FormatOK(r)
    /\ r.Data # <<>>
    /\ validateBarcodeData(r.Type, r.Data) = NilErr

\* C6: for a request with valid type, format and data, whatever the
\* symbology: width 49 is rejected with InvalidData and width 50 accepted
\* (the height being in range); height 1025 is rejected with InvalidData and
\* height 1024 accepted (the width being in range).
C6_DimensionBoundary ==
    (Validated /\ TypeFormatDataOK(caller)) =>
        /\ caller.Width = 49 => RejectedWith("ErrInvalidData")
        /\ (caller.Width = 50 /\ req.Height \in 50..1024) => PassedValidation
        /\ caller.Height = 1025 => RejectedWith("ErrInvalidData")
        /\ (caller.Height = 1024 /\ req.Width \in 50..1024) => PassedValidation

\* a 50 x 1024 request for an EAN-13 code has been accepted
C6_Witness ==
    /\ PassedValidation
    /\ caller.Type = "EAN-13"
    /\ caller.Width = 50
    /\ caller.Height = 1024
\* C7: with a supported format and dimensions in range, UPC-A data is
\* accepted exactly when it is all digits and has length 11, or length 12
\* with the right check digit; EAN-13 data exactly when it is all digits and
\* has length 12, or length 13 with the right check digit; data that is not
\* all digits or has another length is answered with InvalidData.
C7_NumericDataRules ==
    (Validated /\ FormatOK(caller) /\ DimsOK(caller)) =>
        LET d == caller.Data
            n == Len(d)
        IN  /\ caller.Type = "UPC-A" =>
                /\ PassedValidation <=>
                      /\ AllDigits(d)
                      /\ n = 11 \/ (n = 12 /\ Dig(d, 11) = UPCACheckDigit(d))
                /\ (~AllDigits(d) \/ n \notin {11, 12}) => RejectedWith("ErrInvalidData")
            /\ caller.Type = "EAN-13" =>
                /\ PassedValidation <=>
                      /\ AllDigits(d)
                      /\ n = 12 \/ (n = 13 /\ Dig(d, 12) = EAN13CheckDigit(d))
                /\ (~AllDigits(d) \/ n \notin {12, 13}) => RejectedWith("ErrInvalidData")

\* 13 characters, the last but one not a digit, as EAN-13: InvalidData
C7_Witness ==
    /\ RejectedWith("ErrInvalidData")
    /\ caller.Type = "EAN-13"
    /\ Len(caller.Data) = 13
    /\ caller.Data[12] = 65
    /\ caller.Data[13] \in 48..57

\* number of characters (runes) of a well-formed UTF-8 string
RuneCount(s) == Cardinality({i \in 1..Len(s) : ~IsCont(s[i])})

\* C8: Code128 data (with a supported format and dimensions in range) is
\* accepted exactly when it is valid text of 1 to 500 characters, and it
\* is never answered with ChecksumMismatch.
C8_Code128DataRules ==
    (Validated /\ caller.Type = "Code128" /\ FormatOK(caller) /\ DimsOK(caller)) =>
        /\ PassedValidation <=>
              (utf8ValidString(caller.Data) /\ RuneCount(caller.Data) \in 1..500)
        /\ ~PassedValidation => RejectedWith("ErrInvalidData")

Range(f) == {f[i] : i \in DOMAIN f}

\* C9: the encoder is invoked only after applyBarcodeDefaults and a
\* validateBarcodeRequest that returned nil, and a renderer only after the
\* encoder; when validation of the defaulted request fails, the call ends
\* with neither the encoder nor a renderer invoked.
C9_EncodeOnlyAfterValidation ==
    LET verdict == validateBarcodeRequest(applyBarcodeDefaults(caller))
    IN  /\ "encodeBarcode" \in Range(calls) =>
              /\ verdict = NilErr
              /\ SubSeq(calls, 1, 3) = <<"applyBarcodeDefaults",
                                         "validateBarcodeRequest", "encodeBarcode">>
        /\ (Range(calls) \cap {"renderBarcodePNG", "renderBarcodeSVG"} # {}) =>
              /\ "encodeBarcode" \in Range(calls)
              /\ Len(calls) = 4
        /\ (Validated /\ verdict # NilErr) =>
              /\ pc = "done"
              /\ ret.err = verdict
              /\ Range(calls) \cap {"encodeBarcode", "renderBarcodePNG",
                                    "renderBarcodeSVG"} = {}
              /\ encArg = <<>>
              /\ bc = <<>>

\* a call that failed validation on its width has returned
C9_Witness ==
    /\ pc = "done"
    /\ ret.err = Errorf("ErrInvalidData", "width must be between")
    /\ calls = <<"applyBarcodeDefaults", "validateBarcodeRequest">>

\* C10: a returned error comes with no bytes, whatever the stage it comes
\* from, and a return without error carries a complete image: a PNG canvas,
\* or an SVG document from its opening to its closing element.
C10_ErrorMeansNoBytes ==
    pc = "done" =>
        /\ ret.err # NilErr => ret.data = <<>>
        /\ ret.err = NilErr =>
              /\ ret.data # <<>>
              /\ \/ ret.contentType = "image/png" /\ ret.data[1].kind = "png"
                 \/ /\ ret.contentType = "image/svg+xml"
                    /\ ret.data[1].tag = "svg"
                    /\ ret.data[Len(ret.data)].tag = "/svg"

\* the PNG encoder failed after scaling succeeded: an error and no bytes
C10_Witness ==
    /\ pc = "done"
    /\ ret.err.kind = "PNGEncodeError"
    /\ ret.data = <<>>
    /\ calls[Len(calls)] = "renderBarcodePNG"

TypedErrors == {ErrInvalidType, ErrInvalidFormat, ErrInvalidData, ErrChecksumMismatch}

\* Generate has returned an error
ReturnedError == pc = "done" /\ ret.err # NilErr
\* Generate has returned without an error
Succeeded == pc = "done" /\ ret.err = NilErr
\* the error came from a renderer
RenderStage == Len(calls) = 4

\* C11 as stated: every error Generate returns wraps one of the four typed
\* errors, a failure in the render stage included.
C11_EveryErrorTyped ==
    ReturnedError => ret.err.kind \in TypedErrors

\* C11: an error returned before the render stage wraps exactly one of the
\* four typed errors, and an encoder rejection is returned as InvalidData; an
\* error of the render stage wraps the library's error and none of the four.
C11_Amended ==
    ReturnedError =>
        IF RenderStage
        THEN /\ ret.err.kind \notin TypedErrors
             /\ ret.err.kind \in {"ScaleError", "PNGEncodeError"}
             /\ calls[4] = "renderBarcodePNG"
        ELSE /\ ret.err.kind \in TypedErrors
             /\ Len(calls) = 3 => ret.err = Errorf(ErrInvalidData, "encoder")
             /\ Len(calls) = 2 => ret.err = validateBarcodeRequest(req)

\* the encoder has rejected validated data and Generate returned InvalidData
C11_Witness ==
    /\ ReturnedError
    /\ calls = <<"applyBarcodeDefaults", "validateBarcodeRequest", "encodeBarcode">>
    /\ ret.err.kind = ErrInvalidData
    /\ validateBarcodeRequest(req) = NilErr

\* C12: whenever Generate succeeds, the content type is "image/png" for the
\* request format "png" and "image/svg+xml" for "svg"; no other format value
\* leads to a success.
C12_ContentTypeByFormat ==
    Succeeded =>
        /\ caller.Format \in {"png", "svg"}
        /\ caller.Format = "png" => ret.contentType = "image/png"
        /\ caller.Format = "svg" => ret.contentType = "image/svg+xml"

\* an svg request has succeeded
C12_Witness ==
    /\ Succeeded
    /\ caller.Format = "svg"
    /\ ret.contentType = "image/svg+xml"
    /\ calls[4] = "renderBarcodeSVG"

\* the width and height Generate works with, from the caller's request
EffectiveWidth == IF caller.Width = 0 THEN defaultBarcodeWidth ELSE caller.Width
EffectiveHeight == IF caller.Height = 0 THEN defaultBarcodeHeight ELSE caller.Height

\* the returned bytes are a PNG of exactly width x (height + 20 with the
\* label, height without)
ExactRaster ==
    /\ Len(ret.data) = 1
    /\ ret.data[1].kind = "png"
    /\ ret.data[1].width = EffectiveWidth
    /\ ret.data[1].height = EffectiveHeight + (IF caller.IncludeText THEN 20 ELSE 0)
    /\ EffectiveWidth \in 50..1024

\* C13 as stated: every png request that passes validation returns a raster
\* image of exactly width x (height + 20) or width x height pixels.
C13_ValidatedPNGReturnsImage ==
    (pc = "done" /\ Len(calls) >= 3 /\ caller.Format = "png") =>
        Succeeded /\ ExactRaster

\* C13: every png request for which Generate returns without an error gets
\* a raster image of exactly width x (height + 20) pixels when includeText is
\* true and width x height pixels otherwise; a request that passed
\* validation can still fail in the encoder, in barcode.Scale or in
\* png.Encode, and then gets no image.
C13_Amended ==
    /\ (Succeeded /\ caller.Format = "png") => ExactRaster
    /\ (ReturnedError /\ caller.Format = "png") => ret.data = <<>>

\* a png request with the label has succeeded with the default dimensions:
\* 300 x 170
C13_Witness ==
    /\ Succeeded
    /\ caller.Format = "png"
    /\ caller.IncludeText
    /\ caller.Height = 0
    /\ ret.data[1].height = 170
    /\ ret.data[1].width = EffectiveWidth

\* the black rectangles of a vector document, in order
BlackRects(doc) == SelectSeq(doc, LAMBDA e : e.tag = "rect" /\ e.fill = "black")
\* the columns (1-based) at which a maximal run of black cells starts
RunStarts(p) == {i \in 1..Len(p) : p[i] /\ (i = 1 \/ ~p[i - 1])}
\* the last column of the run that starts at column i
RunEnd(p, i) ==
    CHOOSE j \in i..Len(p) :
        /\ \A k \in i..j : p[k]
        /\ j = Len(p) \/ ~p[j + 1]
\* a vector document has been returned
SucceededSVG == Succeeded /\ caller.Format = "svg"

\* C14: the black rectangles of the vector document are exactly the maximal
\* runs of black cells of the pattern, one rectangle per run from the run's
\* first column over the run's length, a run that ends at the last column
\* included.
C14_OneRectPerRun ==
    SucceededSVG =>
        LET rects == BlackRects(ret.data)
        IN  /\ Len(rects) = Cardinality(RunStarts(bc))
            /\ \A i \in RunStarts(bc) :
                  \E k \in 1..Len(rects) :
                      /\ rects[k].xNum = (i - 1) * req.Width
                      /\ rects[k].wNum = (RunEnd(bc, i) - i + 1) * req.Width
                      /\ rects[k].den = Len(bc)
            /\ \A k \in 1..(Len(rects) - 1) :
                  rects[k].xNum + rects[k].wNum < rects[k + 1].xNum

\* a vector document for a pattern of two runs, the second ending at the
\* last column, has two black rectangles
C14_Witness ==
    /\ SucceededSVG
    /\ bc = <<TRUE, FALSE, TRUE>>
    /\ Len(BlackRects(ret.data)) = 2

\* the entity of a metacharacter, any other byte itself
EntityOf(b) ==
    IF b = 38 THEN <<38, 97, 109, 112, 59>>
    ELSE IF b = 60 THEN <<38, 108, 116, 59>>
    ELSE IF b = 62 THEN <<38, 103, 116, 59>>
    ELSE IF b = 34 THEN <<38, 113, 117, 111, 116, 59>>
    ELSE IF b = 39 THEN <<38, 97, 112, 111, 115, 59>>
    ELSE <<b>>
Entities == {EntityOf(b) : b \in {38, 60, 62, 34, 39}}
\* every byte of s replaced by its entity, once
RECURSIVE Escaped(_)
Escaped(s) == IF s = <<>> THEN <<>> ELSE EntityOf(Head(s)) \o Escaped(Tail(s))
\* the content of the text element of a vector document with a label
LabelText(doc) == doc[Len(doc) - 1].content
\* a vector document with a label has been returned
SucceededSVGWithText == SucceededSVG /\ caller.IncludeText

\* C15: the text node of the vector document is the request data with each
\* of & < > " ' replaced once by its entity: it has no raw < > " ', every &
\* in it starts one of the five entities, and data without metacharacters
\* is emitted unchanged.
C15_LabelEscaped ==
    SucceededSVGWithText =>
        LET t == LabelText(ret.data)
        IN  /\ ret.data[Len(ret.data) - 1].tag = "text"
            /\ t = Escaped(caller.Data)
            /\ \A i \in 1..Len(t) : t[i] \notin {60, 62, 34, 39}
            /\ \A i \in 1..Len(t) :
                  t[i] = 38 =>
                      \E e \in Entities :
                          /\ i + Len(e) - 1 <= Len(t)
                          /\ SubSeq(t, i, i + Len(e) - 1) = e
            /\ (\A i \in 1..Len(caller.Data) : caller.Data[i] \notin {38, 60, 62, 34, 39})
                  => t = caller.Data

\* the label of the data "<tag>" is "&lt;tag&gt;"
C15_Witness ==
    /\ SucceededSVGWithText
    /\ caller.Data = <<60, 116, 97, 103, 62>>
    /\ LabelText(ret.data) = <<38, 108, 116, 59, 116, 97, 103, 38, 103, 116, 59>>

\* the encoder has been called
EncoderCalled == Len(calls) >= 3 /\ calls[3] = "encodeBarcode"
\* the request data is in the form without the check digit
ShortUPCA == caller.Type = "UPC-A" /\ Len(caller.Data) = 11
ShortEAN13 == caller.Type = "EAN-13" /\ Len(caller.Data) = 12

\* Generate(r) run from entry to return with nothing in between, given the
\* answers of the encoder, of barcode.Scale and of png.Encode
GenerateAlone(r, o, scaleOK, pngOK) ==
    LET d == applyBarcodeDefaults(r)
        verr == validateBarcodeRequest(d)
        e == encodeBarcode(d.Type, d.Data, o)
    IN  IF verr # NilErr THEN [data |-> <<>>, contentType |-> "", err |-> verr]
        ELSE IF e.err # NilErr THEN [data |-> <<>>, contentType |-> "", err |-> e.err]
        ELSE renderByFormat(d, e.bc, scaleOK, pngOK).ret
\* the results request r yields when its call runs alone
AloneResults(r) ==
    {GenerateAlone(r, o, scaleOK, pngOK) :
        o \in EncoderOutcomes, scaleOK \in BOOLEAN, pngOK \in BOOLEAN}

\* C17: under every interleaving of two Generate calls on one service, each
\* call returns a result its own request yields when run alone, and each
\* call works on its own request only: what a call validates, encodes and
\* renders is its caller's request with the defaults applied, whatever the
\* other call does.
C17_ConcurrentCallsIndependent ==
    /\ pc = "done" => ret \in AloneResults(caller)
    /\ peer.pc = "done" => peer.ret \in AloneResults(peer.caller)
    /\ pc # "start" => req = applyBarcodeDefaults(caller)
    /\ peer.pc \notin {"start", "none"} => peer.req = applyBarcodeDefaults(peer.caller)

\* two calls with different requests have both returned an image, each its
\* own
C17_Witness ==
    /\ pc = "done" /\ peer.pc = "done"
    /\ caller # peer.caller
    /\ ret.err = NilErr /\ peer.ret.err = NilErr
    /\ ret.contentType = "image/svg+xml"
    /\ peer.ret.contentType = "image/png"

\* C18 as stated: for 11-digit UPC-A and 12-digit EAN-13 data the service
\* computes the check digit and appends it to the data before the encoder
\* gets the data.
C18_CheckDigitAppended ==
    EncoderCalled =>
        /\ ShortUPCA =>
              \E zero \in {<<>>, <<48>>} :
                  encArg = zero \o caller.Data \o <<48 + UPCACheckDigit(caller.Data)>>
        /\ ShortEAN13 =>
              encArg = caller.Data \o <<48 + EAN13CheckDigit(caller.Data)>>

\* C18: for 11-digit UPC-A and 12-digit EAN-13 data the service appends
\* nothing: the encoder gets 12 digits that end with the request data, whose
\* last digit is data and not a check digit; the check digit is left to the
\* encoder.
C18_Amended ==
    (EncoderCalled /\ (ShortUPCA \/ ShortEAN13)) =>
        /\ Len(encArg) = 12
        /\ SubSeq(encArg, Len(encArg) - Len(caller.Data) + 1, Len(encArg)) = caller.Data
        /\ AllDigits(encArg)

\* 12-digit EAN-13 data has reached the encoder as it is, without a 13th
\* digit
C18_Witness ==
    /\ EncoderCalled
    /\ ShortEAN13
    /\ encArg = caller.Data
    /\ Len(encArg) = 12

\* C19: 11-digit UPC-A data reaches the encoder as '0' followed by the
\* request data, 12 digits; EAN-13 and Code128 data reach it unchanged.
C19_PromotionOnly ==
    EncoderCalled =>
        /\ ShortUPCA => encArg = <<48>> \o caller.Data /\ Len(encArg) = 12
        /\ caller.Type \in {"EAN-13", "Code128"} => encArg = caller.Data

\* "03600029145" has reached the encoder as "003600029145"
C19_Witness ==
    /\ EncoderCalled
    /\ caller.Type = "UPC-A"
    /\ caller.Data = Digits(<<0,3,6,0,0,0,2,9,1,4,5>>)
    /\ encArg = Digits(<<0,0,3,6,0,0,0,2,9,1,4,5>>)

\* the first column of the k-th maximal run of black cells, from the left
NthStart(p, k) ==
    CHOOSE i \in RunStarts(p) : Cardinality({j \in RunStarts(p) : j < i}) = k - 1

\* C21: the k-th black rectangle of the vector document is the k-th run
\* from the left: x = runStart * width / patternWidth, width = runLength *
\* width / patternWidth, y = 0, and its height is the requested height with
\* and without the label.
C21_RectGeometry ==
    SucceededSVG =>
        LET rects == BlackRects(ret.data)
        IN  /\ Len(rects) <= Cardinality(RunStarts(bc))
            /\ \A k \in 1..Len(rects) :
                  LET i == NthStart(bc, k)
                  IN  /\ rects[k].xNum = (i - 1) * EffectiveWidth
                      /\ rects[k].wNum = (RunEnd(bc, i) - i + 1) * EffectiveWidth
                      /\ rects[k].den = Len(bc)
                      /\ rects[k].y = 0
                      /\ rects[k].height = EffectiveHeight

\* a document with the label for the pattern white, black, black: one
\* rectangle at x = width / 3 of width 2 * width / 3 and of the requested
\* height
C21_Witness ==
    /\ SucceededSVG
    /\ caller.IncludeText
    /\ bc = <<FALSE, TRUE, TRUE>>
    /\ BlackRects(ret.data) =
          <<[tag |-> "rect", fill |-> "black", xNum |-> EffectiveWidth,
             wNum |-> 2 * EffectiveWidth, den |-> 3, y |-> 0,
             height |-> EffectiveHeight]>>

\* the height of the canvas of the vector document
CanvasHeight == EffectiveHeight + (IF caller.IncludeText THEN textPaddingHeight ELSE 0)
\* element e of a vector document is a bar or the label
BarOrLabel(e) == e.tag = "text" \/ (e.tag = "rect" /\ e.fill = "black")

\* C22: the canvas of the vector document is width x height without the
\* label and width x (height + 20) with it, and the first element written
\* inside it is one white rectangle of exactly that size, before every bar
\* and before the label.
C22_BackgroundFirst ==
    SucceededSVG =>
        /\ ret.data[1] = [tag |-> "svg", width |-> EffectiveWidth, height |-> CanvasHeight]
        /\ ret.data[2] = [tag |-> "rect", fill |-> "white", width |-> EffectiveWidth,
                          height |-> CanvasHeight]
        /\ CanvasHeight = EffectiveHeight + (IF caller.IncludeText THEN 20 ELSE 0)
        /\ \A i \in 1..Len(ret.data) : BarOrLabel(ret.data[i]) => i > 2
        /\ ret.data[Len(ret.data)] = [tag |-> "/svg"]

\* a document with bars and the label on the default canvas, 300 x 170
C22_Witness ==
    /\ SucceededSVG
    /\ caller.IncludeText
    /\ caller.Width = 0 /\ caller.Height = 0
    /\ ret.data[2] = [tag |-> "rect", fill |-> "white", width |-> 300, height |-> 170]
    /\ Len(BlackRects(ret.data)) >= 1

\* the label elements of a vector document
Labels(doc) == SelectSeq(doc, LAMBDA e : e.tag = "text")

\* C23: the vector document has exactly one label when includeText is true
\* and none when it is false; the label comes after every bar, at x =
\* width / 2 (the integer quotient) and y = height + 18, and its content is
\* the request data, escaped.
C23_OneLabel ==
    SucceededSVG =>
        IF caller.IncludeText
        THEN /\ Len(Labels(ret.data)) = 1
             /\ ret.data[Len(ret.data) - 1].tag = "text"
             /\ Labels(ret.data)[1] =
                   [tag |-> "text", x |-> EffectiveWidth \div 2,
                    y |-> EffectiveHeight + 18, content |-> Escaped(caller.Data)]
        ELSE Len(Labels(ret.data)) = 0

\* "Hello, World!" at width 51 has one label, at x = 25, with the text as it
\* is
C23_Witness ==
    /\ SucceededSVG
    /\ caller.IncludeText
    /\ caller.Width = 51
    /\ Len(BlackRects(ret.data)) >= 1
    /\ Labels(ret.data) =
          <<[tag |-> "text", x |-> 25, y |-> EffectiveHeight + 18,
             content |-> <<72,101,108,108,111,44,32,87,111,114,108,100,33>>]>>

\* C25: no step of Generate changes the request value the caller holds, and
\* the validation step changes nothing of Generate's copy either: the only
\* change is the defaulting of width and height, on the copy.
C25_CallerRequestUnchanged ==
    [][/\ caller' = caller
       /\ pc = "validate" => req' = req
       /\ req' # req => (pc = "start" /\ req' = applyBarcodeDefaults(caller))]_vars

\* Generate has returned an image for a request without dimensions: its
\* copy has the defaults, the caller's request still has none
C25_Witness ==
    /\ Succeeded
    /\ caller.Width = 0 /\ caller.Height = 0
    /\ req.Width = 300 /\ req.Height = 150
    /\ req.Data = caller.Data

\* the rules of validation, each stated on the request r by itself, in the
\* order of the claim; a rule about digits or a check digit is violated only
\* where it applies
Numeric(r) == r.Type \in {"UPC-A", "EAN-13"}
FullLen(r) == IF r.Type = "UPC-A" THEN 12 ELSE 13
BadType(r) == r.Type \notin {"UPC-A", "EAN-13", "Code128"}
BadFormat(r) == r.Format \notin {"png", "svg"}
EmptyData(r) == r.Data = <<>>
BadCharset(r) ==
    IF Numeric(r) THEN ~AllDigits(r.Data)
    ELSE r.Type = "Code128" /\ ~utf8ValidString(r.Data)
BadLength(r) ==
    IF Numeric(r) THEN Len(r.Data) \notin {FullLen(r) - 1, FullLen(r)}
    ELSE r.Type = "Code128" /\ Len(r.Data) > 500
BadCheckDigit(r) ==
    /\ Numeric(r) /\ AllDigits(r.Data) /\ Len(r.Data) = FullLen(r)
    /\ Dig(r.Data, FullLen(r) - 1) #
          (IF r.Type = "UPC-A" THEN UPCACheckDigit(r.Data) ELSE EAN13CheckDigit(r.Data))
BadWidth(r) == r.Width \notin 50..1024
BadHeight(r) == r.Height \notin 50..1024

\* the rules r violates, by their rank in the order of validation
ViolatedRanks(r) ==
    {k \in 1..8 :
        \/ k = 1 /\ BadType(r)
        \/ k = 2 /\ BadFormat(r)
        \/ k = 3 /\ EmptyData(r)
        \/ k = 4 /\ ~BadType(r) /\ ~EmptyData(r) /\ BadCharset(r)
        \/ k = 5 /\ ~BadType(r) /\ ~EmptyData(r) /\ BadLength(r)
        \/ k = 6 /\ ~BadType(r) /\ BadCheckDigit(r)
        \/ k = 7 /\ BadWidth(r)
        \/ k = 8 /\ BadHeight(r)}
\* the typed error of the rule of rank k
KindOfRank(k) ==
    IF k = 1 THEN ErrInvalidType
    ELSE IF k = 2 THEN ErrInvalidFormat
    ELSE IF k = 6 THEN ErrChecksumMismatch
    ELSE ErrInvalidData
\* the messages of the rule of rank k
MessageOfRank(k) ==
    IF k = 3 THEN {"data is required"}
    ELSE IF k = 4 THEN {"UPC-A data must be numeric", "EAN-13 data must be numeric",
                        "Code128 data must be valid UTF-8"}
    ELSE IF k = 5 THEN {"UPC-A data must be 11 or 12 digits",
                        "EAN-13 data must be 12 or 13 digits",
                        "Code128 data exceeds maximum length"}
    ELSE IF k = 6 THEN {"expected check digit"}
    ELSE IF k = 7 THEN {"width must be between"}
    ELSE IF k = 8 THEN {"height must be between"}
    ELSE {""}
Least(S) == CHOOSE k \in S : \A j \in S : k <= j

\* C27: validation returns the error of the first violated rule in the order
\* type, format, empty data, charset, length, check digit, width, height,
\* and passes exactly the requests that violate none.
C27_FirstFailingCheck ==
    Len(calls) >= 2 =>
        LET V == ViolatedRanks(req)
        IN  IF V = {}
            THEN PassedValidation
            ELSE /\ pc = "done"
                 /\ Len(calls) = 2
                 /\ ret.err.kind = KindOfRank(Least(V))
                 /\ ret.err.detail \in MessageOfRank(Least(V))

\* a request with a wrong check digit and width 49 is rejected with
\* ChecksumMismatch
C27_Witness ==
    /\ pc = "done"
    /\ BadCheckDigit(req)
    /\ req.Width = 49
    /\ ViolatedRanks(req) = {6, 7}
    /\ ret.err.kind = ErrChecksumMismatch

\* the digit strings that differ from s in exactly one position
OneDigitChanged(s) ==
    {[s EXCEPT ![i] = 48 + c] : i \in 1..Len(s), c \in 0..9} \ {s}
\* the call is about to hand validated UPC-A data to the encoder
EncodingUPCA == pc = "encode" /\ req.Type = "UPC-A"
EncodingEAN13 == pc = "encode" /\ req.Type = "EAN-13"

\* C28: for 11-digit strings d (the validated request data and every string
\* one digit away from it), the EAN-13 check digit of "0" + d is the UPC-A
\* check digit of d; and a 12-digit UPC-A code that passed validation is,
\* with '0' in front, a 13-digit code that passes the EAN-13 checksum rule.
C28_PromotionKeepsCheckDigit ==
    EncodingUPCA =>
        /\ Len(req.Data) = 11 =>
              \A d \in OneDigitChanged(req.Data) \cup {req.Data} :
                  computeEAN13Checksum(<<48>> \o d) = computeUPCAChecksum(d)
        /\ Len(req.Data) = 12 =>
              /\ validateEAN13Checksum(encoderInput(req.Type, req.Data)) = NilErr
              /\ Len(encoderInput(req.Type, req.Data)) = 13
              /\ computeEAN13Checksum(<<48>> \o req.Data) = Dig(req.Data, 11)

\* the UPC-A code "036000291452" has passed validation and "0036000291452"
\* passes the EAN-13 rule
C28_Witness ==
    /\ EncodingUPCA
    /\ req.Data = Digits(<<0,3,6,0,0,0,2,9,1,4,5,2>>)
    /\ validateEAN13Checksum(Digits(<<0,0,3,6,0,0,0,2,9,1,4,5,2>>)) = NilErr

\* the final digits with which the prefix p is accepted as data of type t
AcceptedFinals(t, p) ==
    {c \in 0..9 : validateBarcodeData(t, p \o <<48 + c>>) = NilErr}

\* C29: the check digits are in 0..9; for the prefix of a validated full
\* code exactly one of the ten final digits is accepted; and every code that
\* differs from an accepted 12-digit UPC-A or 13-digit EAN-13 code in one
\* digit is rejected with ChecksumMismatch.
C29_SingleDigitErrorsDetected ==
    /\ (EncodingUPCA /\ Len(req.Data) = 12) =>
          /\ computeUPCAChecksum(req.Data) \in 0..9
          /\ Cardinality(AcceptedFinals("UPC-A", SubSeq(req.Data, 1, 11))) = 1
          /\ \A d \in OneDigitChanged(req.Data) :
                /\ computeUPCAChecksum(d) \in 0..9
                /\ validateBarcodeData("UPC-A", d).kind = ErrChecksumMismatch
    /\ (EncodingEAN13 /\ Len(req.Data) = 13) =>
          /\ computeEAN13Checksum(req.Data) \in 0..9
          /\ Cardinality(AcceptedFinals("EAN-13", SubSeq(req.Data, 1, 12))) = 1
          /\ \A d \in OneDigitChanged(req.Data) :
                /\ computeEAN13Checksum(d) \in 0..9
                /\ validateBarcodeData("EAN-13", d).kind = ErrChecksumMismatch

\* the EAN-13 code "4006381333931" has passed validation, and with its
\* seventh digit changed from 1 to 6 it is rejected
C29_Witness ==
    /\ EncodingEAN13
    /\ req.Data = Digits(<<4,0,0,6,3,8,1,3,3,3,9,3,1>>)
    /\ validateBarcodeData("EAN-13", Digits(<<4,0,0,6,3,8,6,3,3,3,9,3,1>>)).kind
          = ErrChecksumMismatch

\* C30: in exact arithmetic (coordinates as fractions over the pattern
\* width) every bar rectangle lies inside the canvas, 0 <= x and x + width
\* <= requested width; consecutive rectangles are at least one cell, scaleX,
\* apart; and a run that reaches the last column is closed at x + width =
\* requested width, so that the rectangles cover exactly the black cells.
C30_BarsInsideCanvasAndApart ==
    SucceededSVG =>
        LET rects == BlackRects(ret.data)
            n == Len(rects)
            W == EffectiveWidth
        IN  /\ \A k \in 1..n :
                  /\ rects[k].xNum >= 0
                  /\ rects[k].wNum > 0
                  /\ rects[k].xNum + rects[k].wNum <= W * rects[k].den
            /\ \A k \in 1..(n - 1) :
                  rects[k + 1].xNum - (rects[k].xNum + rects[k].wNum) >= W
            /\ bc[Len(bc)] =>
                  /\ n >= 1
                  /\ rects[n].xNum + rects[n].wNum = W * rects[n].den
            /\ (~bc[Len(bc)] /\ n >= 1) =>
                  rects[n].xNum + rects[n].wNum <= W * (rects[n].den - 1)

\* the pattern black, white, black: the second bar is one cell from the
\* first and ends at the requested width
C30_Witness ==
    /\ SucceededSVG
    /\ bc = <<TRUE, FALSE, TRUE>>
    /\ LET rects == BlackRects(ret.data)
       IN  /\ rects[2].xNum - (rects[1].xNum + rects[1].wNum) = EffectiveWidth
           /\ rects[2].xNum + rects[2].wNum = 3 * EffectiveWidth

\* both bars have been written
BarsWritten == geo.pc = "done"
\* scaleX = width / patternWidth is above 0.015
ScaleAbove015 == 200 * geo.width > 3 * geo.bcWidth

LaunchInOrder ==
    /\ mw.counter # "none" => mw.written # NoResponse /\ mw.pc \in {"return", "returned"}
    /\ mw.pc \in {"serve", "lookup"} => mw.launched = <<>> /\ mw.counter = "none"
    /\ mw.pc \in {"return", "returned"} =>
          mw.launched = (IF mw.path \in DOMAIN counterNames
                         THEN <<counterNames[mw.path]>> ELSE <<>>)
\* once the wrapped handler has written the response, no step changes it
ResponseKept == mw.pc # "serve" => mw'.written = mw.written

C20_HandlerResponse ==
    /\ hpc # "sent" => resp = NoResponse
    /\ hpc = "sent" =>
          IF pc # "done" \/ ret.err # NilErr
          THEN /\ resp.status \in 400..499
               /\ resp.contentType = "application/json"
               /\ Len(resp.body) = 1
               /\ DOMAIN resp.body[1] = {"error"}
               /\ pc # "done" => pc = "start" /\ calls = <<>>
          ELSE /\ resp.status = 200
               /\ resp.contentType = ret.contentType
               /\ resp.contentType \in {"image/png", "image/svg+xml"}
               /\ resp.body = ret.data

\* Generate returned ChecksumMismatch and the handler has answered 400
C20_Witness ==
    /\ hpc = "sent"
    /\ ret.err.kind = "ErrChecksumMismatch"
    /\ resp.status = 400
    /\ resp.body = <<[error |-> ret.err]>>

====
